---- MODULE Spec2Model ----
(***************************************************************************)
(* ApexSim menu layer: the startup flow of UApexSimGameInstance (loading   *)
(* screen, one-shot timer, main menu) and the hover effects of             *)
(* UMainMenuWidget (per-button snapshot, hover style, restore).            *)
(*                                                                         *)
(* Real numbers (scales, colour channels) are fixed point in hundredths:   *)
(* 100 stands for 1.0, 105 for 1.05.                                       *)
(***************************************************************************)
EXTENDS Integers, Sequences, FiniteSets

\* ------------------------------------------------------------------ bounds
\* Direct (Blueprint) calls of ShowMainMenu beside the timer's call.
MaxDirectCalls == 3
\* Calls of BindButtonHoverEffects (NativeConstruct's and the Blueprint's).
MaxBinds == 2
\* Calls of PlaySound2D counted.
MaxSoundPlays == 2

\* ------------------------------------------------------- startup flow state
VARIABLES
    LoadingScreenWidgetClass,  \* TSubclassOf<UUserWidget>, set in the editor
    MainMenuWidgetClass,       \* TSubclassOf<UUserWidget>, set in the editor
    CurrentWidget,             \* TObjectPtr<UUserWidget>: 0 is nullptr, else a widget id
    LoadingTimerHandle,        \* "unset" | "pending" | "fired"
    widgets,                   \* the widgets CreateWidget has made: id -> class
    viewport,                  \* the ids of the widgets in the viewport
    inputMode,                 \* "Default" | "UIOnly" (the player controller's)
    focusWidget,               \* the widget the UI-only input mode focuses, 0 if none
    bShowMouseCursor,          \* APlayerController::bShowMouseCursor
    started,                   \* Init has run
    timerFires,                \* calls of ShowMainMenu made by the timer
    directCalls,               \* calls of ShowMainMenu made directly
    uiCalls                    \* AddToViewport / RemoveFromParent calls, in order

flowVars == <<LoadingScreenWidgetClass, MainMenuWidgetClass, CurrentWidget,
              LoadingTimerHandle, widgets, viewport, inputMode, focusWidget,
              bShowMouseCursor, started, timerFires, directCalls, uiCalls>>

\* ------------------------------------------------------ hover manager state
VARIABLES
    PlayButton,          \* TObjectPtr<UButton> (BindWidget): a button or nullptr
    SettingsButton,
    ContentButton,
    QuitButton,
    RenderTransform,     \* each button's FWidgetTransform (UWidget::GetRenderTransform)
    ColorAndOpacity,     \* each button's FLinearColor (UButton::GetColorAndOpacity)
    OriginalTransforms,  \* TMap<UButton*, FWidgetTransform>
    OriginalColors,      \* TMap<UButton*, FLinearColor>
    hoverBound,          \* the buttons whose OnHovered / OnUnhovered delegates are bound
    bPlaySoundOnHover,
    HoverSound,          \* TObjectPtr<USoundBase>: a sound or nullptr
    soundPlays,          \* calls of UGameplayStatics::PlaySound2D
    bindCalls,           \* calls of BindButtonHoverEffects
    firstTransforms,     \* the transform each button had when it was first registered
    firstColors,         \* the colour each button had when it was first registered
    lastCall             \* the last call made on the widget

hoverVars == <<PlayButton, SettingsButton, ContentButton, QuitButton, RenderTransform,
               ColorAndOpacity, OriginalTransforms, OriginalColors, hoverBound,
               bPlaySoundOnHover, HoverSound, soundPlays, bindCalls, firstTransforms,
               firstColors, lastCall>>

vars == <<flowVars, hoverVars>>

\* ------------------------------------------------------------ startup flow

\* A null class, a class CreateWidget cannot instantiate, and the two real ones.
NullClass == "nullptr"
AbstractClass == "AbstractWidget"
LoadingClass == "WBP_LoadingScreen"
MenuClass == "WBP_MainMenu"

NullWidget == 0

\* CreateWidget<UUserWidget>(this, Class): the widget list after the call and the
\* id returned (NullWidget when the class is null or cannot be instantiated).
CreateWidget(ws, cls) ==
    IF cls \in {NullClass, AbstractClass}
    THEN [widgets |-> ws, id |-> NullWidget]
    ELSE [widgets |-> Append(ws, cls), id |-> Len(ws) + 1]

\* AddToViewport left out: the widget is created and never shown.
AddToViewport_Missing(vp, w) == vp

AddToViewport(vp, w) == vp \cup {w}

\* RemoveFromParent left out: the old widget stays in the viewport.
RemoveFromParent_Noop(vp, w) == vp

RemoveFromParent(vp, w) == vp \ {w}

UICall(name, w) == [call |-> name, widget |-> w]

\* The state after construction: the classes are editor data, nothing is shown.
FlowInit ==
    /\ LoadingScreenWidgetClass \in {NullClass, AbstractClass, LoadingClass}
    /\ MainMenuWidgetClass \in {NullClass, AbstractClass, MenuClass}
    /\ CurrentWidget = NullWidget
    /\ LoadingTimerHandle = "unset"
    /\ widgets = <<>>
    /\ viewport = {}
    /\ inputMode = "Default"
    /\ focusWidget = NullWidget
    /\ bShowMouseCursor = FALSE
    /\ started = FALSE
    /\ timerFires = 0
    /\ directCalls = 0
    /\ uiCalls = <<>>

\* The game instance as constructed, with both classes set.
FlowIdle ==
    /\ LoadingScreenWidgetClass = LoadingClass
    /\ MainMenuWidgetClass = MenuClass
    /\ CurrentWidget = NullWidget
    /\ LoadingTimerHandle = "unset"
    /\ widgets = <<>>
    /\ viewport = {}
    /\ inputMode = "Default"
    /\ focusWidget = NullWidget
    /\ bShowMouseCursor = FALSE
    /\ started = FALSE
    /\ timerFires = 0
    /\ directCalls = 0
    /\ uiCalls = <<>>

\* UApexSimGameInstance::Init, run once by the engine. pc: GetPlayerController
\* returned a controller.
GameInstanceInit(pc) ==
    LET made == CreateWidget(widgets, LoadingScreenWidgetClass)
        shown == LoadingScreenWidgetClass # NullClass /\ made.id # NullWidget
    IN  /\ ~started
        /\ started' = TRUE
        /\ IF LoadingScreenWidgetClass # NullClass
           THEN /\ CurrentWidget' = made.id
                /\ widgets' = made.widgets
           ELSE UNCHANGED <<CurrentWidget, widgets>>
        /\ IF shown
           THEN /\ viewport' = AddToViewport(viewport, made.id)
                /\ uiCalls' = Append(uiCalls, UICall("AddToViewport", made.id))
                /\ LoadingTimerHandle' = "pending"
                /\ IF pc
                   THEN /\ inputMode' = "UIOnly"
                        /\ focusWidget' = made.id
                        /\ bShowMouseCursor' = FALSE
                   ELSE UNCHANGED <<inputMode, focusWidget, bShowMouseCursor>>
           ELSE UNCHANGED <<viewport, uiCalls, LoadingTimerHandle, inputMode,
                            focusWidget, bShowMouseCursor>>
        /\ UNCHANGED <<LoadingScreenWidgetClass, MainMenuWidgetClass, timerFires,
                       directCalls>>
        /\ UNCHANGED hoverVars

\* ShowMainMenu without "if (CurrentWidget)": RemoveFromParent is called on
\* whatever CurrentWidget holds, nullptr included.
ShowMainMenu_NoNullCheck(pc) ==
    LET vp1 == RemoveFromParent(viewport, CurrentWidget)
        calls1 == Append(uiCalls, UICall("RemoveFromParent", CurrentWidget))
        made == CreateWidget(widgets, MainMenuWidgetClass)
        shown == MainMenuWidgetClass # NullClass /\ made.id # NullWidget
    IN  /\ IF MainMenuWidgetClass # NullClass
           THEN /\ CurrentWidget' = made.id
                /\ widgets' = made.widgets
           ELSE /\ CurrentWidget' = NullWidget
                /\ UNCHANGED widgets
        /\ IF shown
           THEN /\ viewport' = AddToViewport(vp1, made.id)
                /\ uiCalls' = Append(calls1, UICall("AddToViewport", made.id))
                /\ IF pc
                   THEN /\ inputMode' = "UIOnly"
                        /\ focusWidget' = made.id
                        /\ bShowMouseCursor' = TRUE
                   ELSE UNCHANGED <<inputMode, focusWidget, bShowMouseCursor>>
           ELSE /\ viewport' = vp1
                /\ uiCalls' = calls1
                /\ UNCHANGED <<inputMode, focusWidget, bShowMouseCursor>>

\* UApexSimGameInstance::ShowMainMenu: the part of the state it writes.
ShowMainMenu(pc) ==
    LET had == CurrentWidget # NullWidget
        vp1 == IF had THEN RemoveFromParent(viewport, CurrentWidget) ELSE viewport
        calls1 == IF had
                  THEN Append(uiCalls, UICall("RemoveFromParent", CurrentWidget))
                  ELSE uiCalls
        made == CreateWidget(widgets, MainMenuWidgetClass)
        shown == MainMenuWidgetClass # NullClass /\ made.id # NullWidget
    IN  /\ IF MainMenuWidgetClass # NullClass
           THEN /\ CurrentWidget' = made.id
                /\ widgets' = made.widgets
           ELSE /\ CurrentWidget' = NullWidget
                /\ UNCHANGED widgets
        /\ IF shown
           THEN /\ viewport' = AddToViewport(vp1, made.id)
                /\ uiCalls' = Append(calls1, UICall("AddToViewport", made.id))
                /\ IF pc
                   THEN /\ inputMode' = "UIOnly"
                        /\ focusWidget' = made.id
                        /\ bShowMouseCursor' = TRUE
                   ELSE UNCHANGED <<inputMode, focusWidget, bShowMouseCursor>>
           ELSE /\ viewport' = vp1
                /\ uiCalls' = calls1
                /\ UNCHANGED <<inputMode, focusWidget, bShowMouseCursor>>

\* The timer set with bLoop true: it stays pending after it fires.
TimerFire_Looping(pc) ==
    /\ LoadingTimerHandle = "pending"
    /\ timerFires < 2
    /\ LoadingTimerHandle' = "pending"
    /\ timerFires' = timerFires + 1
    /\ ShowMainMenu(pc)
    /\ UNCHANGED <<LoadingScreenWidgetClass, MainMenuWidgetClass, started, directCalls>>
    /\ UNCHANGED hoverVars

\* The timer set in Init fires: single shot (bLoop is false), it calls ShowMainMenu.
TimerFire(pc) ==
    /\ LoadingTimerHandle = "pending"
    /\ LoadingTimerHandle' = "fired"
    /\ timerFires' = timerFires + 1
    /\ ShowMainMenu(pc)
    /\ UNCHANGED <<LoadingScreenWidgetClass, MainMenuWidgetClass, started, directCalls>>
    /\ UNCHANGED hoverVars

\* ShowMainMenu is BlueprintCallable: a call made by the game, not by the timer.
ShowMainMenuCall(pc) ==
    /\ started
    /\ directCalls < MaxDirectCalls
    /\ directCalls' = directCalls + 1
    /\ ShowMainMenu(pc)
    /\ UNCHANGED <<LoadingScreenWidgetClass, MainMenuWidgetClass, started,
                   LoadingTimerHandle, timerFires>>
    /\ UNCHANGED hoverVars

FlowNext ==
    \/ \E pc \in BOOLEAN : GameInstanceInit(pc)
    \/ \E pc \in BOOLEAN : TimerFire(pc)
    \/ \E pc \in BOOLEAN : ShowMainMenuCall(pc)

\* Calls of ShowMainMenu so far, and the flow state of the controller.
ShowMainMenuCalls == timerFires + directCalls

FlowState == IF ShowMainMenuCalls > 0 THEN "MainMenu" ELSE "LoadingScreen"

\* ------------------------------------------------------------ hover manager

NullButton == "nullptr"
NullSound == "nullptr"

\* The four buttons the widget's properties can refer to, and a button of the
\* widget tree that none of them refers to.
AllButtons == {"Play", "Settings", "Content", "Quit", "Other"}

\* float HoverScaleMultiplier = 1.05f
HoverScaleMultiplier == 105

\* FLinearColor HoverColorTint = FLinearColor(1.2f, 1.2f, 1.2f, 1.0f)
HoverColorTint == [R |-> 120, G |-> 120, B |-> 120, A |-> 100]

\* A product of two fixed-point numbers (in hundredths, rounded down).
Mul(a, b) == (a * b) \div 100

\* The product clamped to the displayable range [0, 1].
MulColor_Clamped(c, t) ==
    LET Clamp(x) == IF x > 100 THEN 100 ELSE x
    IN  [R |-> Clamp(Mul(c.R, t.R)), G |-> Clamp(Mul(c.G, t.G)),
         B |-> Clamp(Mul(c.B, t.B)), A |-> Clamp(Mul(c.A, t.A))]

\* FLinearColor::operator*(const FLinearColor&): channel by channel.
MulColor(c, t) ==
    [R |-> Mul(c.R, t.R), G |-> Mul(c.G, t.G), B |-> Mul(c.B, t.B), A |-> Mul(c.A, t.A)]

\* The styles a button can have when the widget is constructed.
DefaultTransform ==
    [Translation |-> <<0, 0>>, Scale |-> <<100, 100>>, Shear |-> <<0, 0>>, Angle |-> 0]
DesignerTransform ==
    [Translation |-> <<10, -5>>, Scale |-> <<200, 120>>, Shear |-> <<0, 0>>, Angle |-> 15]
DefaultColor == [R |-> 50, G |-> 50, B |-> 50, A |-> 100]
DesignerColor == [R |-> 100, G |-> 80, B |-> 60, A |-> 50]

\* The buttons styled by the designer in the widget Blueprint: none, or these.
DesignerStyled == {{}, {"Settings", "Content", "Other"}}

\* TMap::Add: the value of an existing key is replaced.
MapAdd(m, k, v) == [x \in (DOMAIN m) \cup {k} |-> IF x = k THEN v ELSE m[x]]

EmptyMap == [x \in {} |-> 0]

\* The button properties left unbound (nullptr) by the widget Blueprint.
UnboundChoices == {{}, {"Quit"}, {"Play", "Content"}}

Ref(unbound, b) == IF b \in unbound THEN NullButton ELSE b

HoverInit ==
    /\ \E unbound \in UnboundChoices :
        /\ PlayButton = Ref(unbound, "Play")
        /\ SettingsButton = Ref(unbound, "Settings")
        /\ ContentButton = Ref(unbound, "Content")
        /\ QuitButton = Ref(unbound, "Quit")
    /\ \E styled \in DesignerStyled :
        /\ RenderTransform = [b \in AllButtons |->
               IF b \in styled THEN DesignerTransform ELSE DefaultTransform]
        /\ ColorAndOpacity = [b \in AllButtons |->
               IF b \in styled THEN DesignerColor ELSE DefaultColor]
    /\ OriginalTransforms = EmptyMap
    /\ OriginalColors = EmptyMap
    /\ hoverBound = {}
    /\ bPlaySoundOnHover \in BOOLEAN
    /\ HoverSound \in {NullSound, "HoverCue"}
    /\ soundPlays = 0
    /\ bindCalls = 0
    /\ firstTransforms = EmptyMap
    /\ firstColors = EmptyMap
    /\ lastCall = [op |-> "none", button |-> NullButton, via |-> "none", changed |-> FALSE]

\* The widget as constructed with its defaults, before NativeConstruct.
HoverIdle ==
    /\ PlayButton = "Play"
    /\ SettingsButton = "Settings"
    /\ ContentButton = "Content"
    /\ QuitButton = "Quit"
    /\ RenderTransform = [b \in AllButtons |-> DefaultTransform]
    /\ ColorAndOpacity = [b \in AllButtons |-> DefaultColor]
    /\ OriginalTransforms = EmptyMap
    /\ OriginalColors = EmptyMap
    /\ hoverBound = {}
    /\ bPlaySoundOnHover = TRUE
    /\ HoverSound = NullSound
    /\ soundPlays = 0
    /\ bindCalls = 0
    /\ firstTransforms = EmptyMap
    /\ firstColors = EmptyMap
    /\ lastCall = [op |-> "none", button |-> NullButton, via |-> "none", changed |-> FALSE]

\* One "if (Button) { ... }" block of BindButtonHoverEffects, on the maps and the
\* delegate bindings st.
Register(st, Button) ==
    IF Button = NullButton
    THEN st
    ELSE [OriginalTransforms |->
              MapAdd(st.OriginalTransforms, Button, RenderTransform[Button]),
          OriginalColors |->
              MapAdd(st.OriginalColors, Button, ColorAndOpacity[Button]),
          hoverBound |-> st.hoverBound \cup {Button}]

\* The record of first registrations: the buttons in it keep their entry, a
\* button registered for the first time gets the style it has now.
KeepFirst(first, registered, style) ==
    [x \in (DOMAIN first) \cup registered |->
        IF x \in DOMAIN first THEN first[x] ELSE style[x]]

\* BindButtonHoverEffects written with early returns: "if (!Button) return;"
\* before each block, so that a null button ends the function.
BindButtonHoverEffects_ReturnOnNull ==
    LET s0 == [OriginalTransforms |-> OriginalTransforms,
               OriginalColors |-> OriginalColors,
               hoverBound |-> hoverBound]
        s1 == Register(s0, PlayButton)
        s2 == IF PlayButton = NullButton THEN s1 ELSE Register(s1, SettingsButton)
        s3 == IF NullButton \in {PlayButton, SettingsButton}
              THEN s2 ELSE Register(s2, ContentButton)
        s4 == IF NullButton \in {PlayButton, SettingsButton, ContentButton}
              THEN s3 ELSE Register(s3, QuitButton)
    IN  /\ OriginalTransforms' = s4.OriginalTransforms
        /\ OriginalColors' = s4.OriginalColors
        /\ hoverBound' = s4.hoverBound
        /\ firstTransforms' =
               KeepFirst(firstTransforms, DOMAIN s4.OriginalTransforms, RenderTransform)
        /\ firstColors' =
               KeepFirst(firstColors, DOMAIN s4.OriginalColors, ColorAndOpacity)

\* UMainMenuWidget::BindButtonHoverEffects
BindButtonHoverEffects ==
    LET s0 == [OriginalTransforms |-> OriginalTransforms,
               OriginalColors |-> OriginalColors,
               hoverBound |-> hoverBound]
        s1 == Register(s0, PlayButton)
        s2 == Register(s1, SettingsButton)
        s3 == Register(s2, ContentButton)
        s4 == Register(s3, QuitButton)
    IN  /\ OriginalTransforms' = s4.OriginalTransforms
        /\ OriginalColors' = s4.OriginalColors
        /\ hoverBound' = s4.hoverBound
        /\ firstTransforms' =
               KeepFirst(firstTransforms, DOMAIN s4.OriginalTransforms, RenderTransform)
        /\ firstColors' =
               KeepFirst(firstColors, DOMAIN s4.OriginalColors, ColorAndOpacity)

\* A call of BindButtonHoverEffects: NativeConstruct makes one each time the
\* widget is constructed, and the function is BlueprintCallable.
BindCall(who) ==
    /\ bindCalls < MaxBinds
    /\ bindCalls' = bindCalls + 1
    /\ BindButtonHoverEffects
    /\ lastCall' = [op |-> "BindButtonHoverEffects", button |-> NullButton,
                    via |-> who, changed |-> FALSE]
    /\ UNCHANGED <<PlayButton, SettingsButton, ContentButton, QuitButton,
                   RenderTransform, ColorAndOpacity, bPlaySoundOnHover, HoverSound,
                   soundPlays>>
    /\ UNCHANGED flowVars

\* UMainMenuWidget::NativeConstruct
NativeConstruct == BindCall("NativeConstruct")

\* BindButtonHoverEffects called from the widget Blueprint.
BindButtonHoverEffectsCall == bindCalls >= 1 /\ BindCall("direct")

\* The transform ApplyHoverEffect derives from the stored one.
HoverTransform(Original) ==
    [Original EXCEPT !.Scale = <<HoverScaleMultiplier, HoverScaleMultiplier>>]

\* ApplyHoverEffect looping over the map: every registered button gets its hover
\* style, not only the one passed.
ApplyHoverEffect_AllButtons(Button) ==
    IF Button = NullButton \/ Button \notin DOMAIN OriginalTransforms
    THEN UNCHANGED <<RenderTransform, ColorAndOpacity>>
    ELSE /\ RenderTransform' =
                [b \in AllButtons |->
                    IF b \in DOMAIN OriginalTransforms
                    THEN HoverTransform(OriginalTransforms[b])
                    ELSE RenderTransform[b]]
         /\ ColorAndOpacity' =
                [b \in AllButtons |->
                    IF b \in DOMAIN OriginalColors
                    THEN MulColor(OriginalColors[b], HoverColorTint)
                    ELSE ColorAndOpacity[b]]

\* ApplyHoverEffect with FindOrAdd for Find: an unknown button gets the hover
\* scale on a default transform.
ApplyHoverEffect_FindOrAdd(Button) ==
    IF Button = NullButton
    THEN UNCHANGED <<RenderTransform, ColorAndOpacity>>
    ELSE LET Original == IF Button \in DOMAIN OriginalTransforms
                         THEN OriginalTransforms[Button]
                         ELSE DefaultTransform
         IN  /\ RenderTransform' =
                    [RenderTransform EXCEPT ![Button] = HoverTransform(Original)]
             /\ IF Button \in DOMAIN OriginalColors
                THEN ColorAndOpacity' =
                         [ColorAndOpacity EXCEPT
                             ![Button] = MulColor(OriginalColors[Button], HoverColorTint)]
                ELSE UNCHANGED ColorAndOpacity

\* UMainMenuWidget::ApplyHoverEffect: what it does to the buttons' styles.
ApplyHoverEffect(Button) ==
    IF Button = NullButton
    THEN UNCHANGED <<RenderTransform, ColorAndOpacity>>
    ELSE IF Button \notin DOMAIN OriginalTransforms
    THEN UNCHANGED <<RenderTransform, ColorAndOpacity>>
    ELSE /\ RenderTransform' =
                [RenderTransform EXCEPT ![Button] = HoverTransform(OriginalTransforms[Button])]
         /\ IF Button \in DOMAIN OriginalColors
            THEN ColorAndOpacity' =
                     [ColorAndOpacity EXCEPT
                         ![Button] = MulColor(OriginalColors[Button], HoverColorTint)]
            ELSE UNCHANGED ColorAndOpacity

\* RemoveHoverEffect without its colour block: only the transform is restored.
RemoveHoverEffect_TransformOnly(Button) ==
    IF Button = NullButton
    THEN UNCHANGED <<RenderTransform, ColorAndOpacity>>
    ELSE /\ IF Button \in DOMAIN OriginalTransforms
            THEN RenderTransform' =
                     [RenderTransform EXCEPT ![Button] = OriginalTransforms[Button]]
            ELSE UNCHANGED RenderTransform
         /\ UNCHANGED ColorAndOpacity

\* UMainMenuWidget::RemoveHoverEffect: what it does to the buttons' styles.
RemoveHoverEffect(Button) ==
    IF Button = NullButton
    THEN UNCHANGED <<RenderTransform, ColorAndOpacity>>
    ELSE /\ IF Button \in DOMAIN OriginalTransforms
            THEN RenderTransform' =
                     [RenderTransform EXCEPT ![Button] = OriginalTransforms[Button]]
            ELSE UNCHANGED RenderTransform
         /\ IF Button \in DOMAIN OriginalColors
            THEN ColorAndOpacity' =
                     [ColorAndOpacity EXCEPT ![Button] = OriginalColors[Button]]
            ELSE UNCHANGED ColorAndOpacity

\* The record of a call of ApplyHoverEffect or RemoveHoverEffect; changed: the
\* call changed the style of some button.
StyleCall(name, Button, who) ==
    lastCall' = [op |-> name, button |-> Button, via |-> who,
                 changed |-> (RenderTransform' # RenderTransform
                              \/ ColorAndOpacity' # ColorAndOpacity)]

\* The hover handler with "if (HoverSound)" for "if (bPlaySoundOnHover &&
\* HoverSound)": the flag is not looked at.
OnButtonHovered_IgnoresFlag(Button) ==
    /\ Button \in hoverBound
    /\ IF HoverSound # NullSound
       THEN /\ soundPlays < MaxSoundPlays
            /\ soundPlays' = soundPlays + 1
       ELSE UNCHANGED soundPlays
    /\ ApplyHoverEffect(Button)
    /\ StyleCall("ApplyHoverEffect", Button, "OnHovered")
    /\ UNCHANGED <<PlayButton, SettingsButton, ContentButton, QuitButton,
                   OriginalTransforms, OriginalColors, hoverBound, bPlaySoundOnHover,
                   HoverSound, bindCalls, firstTransforms, firstColors>>
    /\ UNCHANGED flowVars

\* The body shared by the four On...ButtonHovered handlers, run when the
\* button's OnHovered delegate fires.
OnButtonHovered(Button) ==
    /\ Button \in hoverBound
    /\ IF bPlaySoundOnHover /\ HoverSound # NullSound
       THEN /\ soundPlays < MaxSoundPlays
            /\ soundPlays' = soundPlays + 1
       ELSE UNCHANGED soundPlays
    /\ ApplyHoverEffect(Button)
    /\ StyleCall("ApplyHoverEffect", Button, "OnHovered")
    /\ UNCHANGED <<PlayButton, SettingsButton, ContentButton, QuitButton,
                   OriginalTransforms, OriginalColors, hoverBound, bPlaySoundOnHover,
                   HoverSound, bindCalls, firstTransforms, firstColors>>
    /\ UNCHANGED flowVars

\* The unhover handler dropping the button's snapshots once it has restored them.
OnButtonUnhovered_Erase(Button) ==
    /\ Button \in hoverBound
    /\ RemoveHoverEffect(Button)
    /\ StyleCall("RemoveHoverEffect", Button, "OnUnhovered")
    /\ OriginalTransforms' =
           [x \in (DOMAIN OriginalTransforms) \ {Button} |-> OriginalTransforms[x]]
    /\ OriginalColors' = [x \in (DOMAIN OriginalColors) \ {Button} |-> OriginalColors[x]]
    /\ UNCHANGED <<PlayButton, SettingsButton, ContentButton, QuitButton,
                   hoverBound, bPlaySoundOnHover,
                   HoverSound, soundPlays, bindCalls, firstTransforms, firstColors>>
    /\ UNCHANGED flowVars

\* The body shared by the four On...ButtonUnhovered handlers.
OnButtonUnhovered(Button) ==
    /\ Button \in hoverBound
    /\ RemoveHoverEffect(Button)
    /\ StyleCall("RemoveHoverEffect", Button, "OnUnhovered")
    /\ UNCHANGED <<PlayButton, SettingsButton, ContentButton, QuitButton,
                   OriginalTransforms, OriginalColors, hoverBound, bPlaySoundOnHover,
                   HoverSound, soundPlays, bindCalls, firstTransforms, firstColors>>
    /\ UNCHANGED flowVars

OnPlayButtonHovered == OnButtonHovered(PlayButton)
OnPlayButtonUnhovered == OnButtonUnhovered(PlayButton)
OnSettingsButtonHovered == OnButtonHovered(SettingsButton)
OnSettingsButtonUnhovered == OnButtonUnhovered(SettingsButton)
OnContentButtonHovered == OnButtonHovered(ContentButton)
OnContentButtonUnhovered == OnButtonUnhovered(ContentButton)
OnQuitButtonHovered == OnButtonHovered(QuitButton)
OnQuitButtonUnhovered == OnButtonUnhovered(QuitButton)

\* ApplyHoverEffect and RemoveHoverEffect are BlueprintCallable: the calls made
\* directly pass no button, a button no property refers to, or the Play button.
DirectTargets == {NullButton, "Other", "Play"}

ApplyHoverEffectCall(Button) ==
    /\ ApplyHoverEffect(Button)
    /\ StyleCall("ApplyHoverEffect", Button, "direct")
    /\ UNCHANGED <<PlayButton, SettingsButton, ContentButton, QuitButton,
                   OriginalTransforms, OriginalColors, hoverBound, bPlaySoundOnHover,
                   HoverSound, soundPlays, bindCalls, firstTransforms, firstColors>>
    /\ UNCHANGED flowVars

RemoveHoverEffectCall(Button) ==
    /\ RemoveHoverEffect(Button)
    /\ StyleCall("RemoveHoverEffect", Button, "direct")
    /\ UNCHANGED <<PlayButton, SettingsButton, ContentButton, QuitButton,
                   OriginalTransforms, OriginalColors, hoverBound, bPlaySoundOnHover,
                   HoverSound, soundPlays, bindCalls, firstTransforms, firstColors>>
    /\ UNCHANGED flowVars

HoverNext ==
    \/ NativeConstruct
    \/ BindButtonHoverEffectsCall
    \/ OnPlayButtonHovered
    \/ OnPlayButtonUnhovered
    \/ OnSettingsButtonHovered
    \/ OnSettingsButtonUnhovered
    \/ OnContentButtonHovered
    \/ OnContentButtonUnhovered
    \/ OnQuitButtonHovered
    \/ OnQuitButtonUnhovered
    \/ \E b \in DirectTargets : ApplyHoverEffectCall(b)
    \/ \E b \in DirectTargets : RemoveHoverEffectCall(b)

\* The hover manager alone: the game instance is constructed and left alone.
HoverSpecInit == HoverInit /\ FlowIdle

HoverSpec == HoverSpecInit /\ [][HoverNext]_vars

\* The startup flow alone: the main menu widget is constructed and left alone.
FlowSpecInit == FlowInit /\ HoverIdle

FlowSpec == FlowSpecInit /\ [][FlowNext]_vars

\* The timer manager fires a pending timer.
FairFlowSpec == FlowSpec /\ WF_vars(\E pc \in BOOLEAN : TimerFire(pc))

\* The game instance and the main menu widget together.
Init == FlowInit /\ HoverInit

Next == FlowNext \/ HoverNext

Spec == Init /\ [][Next]_vars

\* ---------------------------------------------------- startup flow: claims

\* C4: after Init, whatever the two widget classes are, the one-shot timer has
\* been scheduled and fires exactly once: it is pending with no call made by it,
\* or it has fired with exactly one call made by it.
C4_TimerScheduledOnce ==
    started =>
        \/ LoadingTimerHandle = "pending" /\ timerFires = 0
        \/ LoadingTimerHandle = "fired" /\ timerFires = 1

\* The AddToViewport calls of uiCalls, each with a RemoveFromParent of the widget
\* shown before it between the two.
HiddenBeforeNextShown ==
    \A i, j \in 1..Len(uiCalls) :
        (i < j /\ uiCalls[i].call = "AddToViewport" /\ uiCalls[j].call = "AddToViewport")
            => \E k \in (i + 1)..(j - 1) :
                   uiCalls[k] = UICall("RemoveFromParent", uiCalls[i].widget)

\* C5: the controller holds no view or one, at most one of the views it made is
\* in the viewport (the current one), and a superseded view was removed from the
\* viewport before the next one was shown.
C5_AtMostOneView ==
    /\ CurrentWidget \in {NullWidget} \cup (1..Len(widgets))
    /\ Cardinality(viewport) <= 1
    /\ viewport \subseteq ({CurrentWidget} \ {NullWidget})
    /\ HiddenBeforeNextShown

\* A loading view and two menu views were made, the third superseding the second.
C5_Witness ==
    /\ ShowMainMenuCalls >= 2
    /\ Len(widgets) >= 3
    /\ viewport = {CurrentWidget}

\* C7: once ShowMainMenu has been called twice (by the timer and directly, in
\* either order) with a main menu class set, exactly one view is in the viewport
\* and it is the current view, an instance of the main menu class.
C7_SecondCallSoleMenu ==
    (ShowMainMenuCalls >= 2 /\ MainMenuWidgetClass = MenuClass) =>
        /\ CurrentWidget # NullWidget
        /\ viewport = {CurrentWidget}
        /\ widgets[CurrentWidget] = MenuClass

\* The timer's call and one direct call have both been made.
C7_Witness ==
    /\ timerFires = 1
    /\ directCalls = 1
    /\ MainMenuWidgetClass = MenuClass
    /\ Len(widgets) = 3

\* C8: a call of ShowMainMenu made when one was made before leaves the current
\* view reference as the earlier call left it.
C8_SecondCallKeepsView ==
    [][(ShowMainMenuCalls >= 1 /\ ShowMainMenuCalls' = ShowMainMenuCalls + 1)
           => CurrentWidget' = CurrentWidget]_vars

\* C9: with both classes set and no direct call, the loading view (the first
\* widget) is current and shown while the timer is pending; once the timer has
\* fired the current view is a new menu instance, and the calls made are the
\* show of the loading view, then one hide of it, then one show of the menu.
C9_EndToEnd ==
    (/\ started
     /\ LoadingScreenWidgetClass = LoadingClass
     /\ MainMenuWidgetClass = MenuClass
     /\ directCalls = 0) =>
        /\ LoadingTimerHandle # "unset"
        /\ LoadingTimerHandle = "pending" =>
               /\ widgets = <<LoadingClass>>
               /\ CurrentWidget = 1
               /\ viewport = {1}
               /\ uiCalls = <<UICall("AddToViewport", 1)>>
        /\ LoadingTimerHandle = "fired" =>
               /\ widgets = <<LoadingClass, MenuClass>>
               /\ CurrentWidget = 2
               /\ viewport = {2}
               /\ uiCalls = <<UICall("AddToViewport", 1),
                              UICall("RemoveFromParent", 1),
                              UICall("AddToViewport", 2)>>

\* The timer has fired in the end-to-end run.
C9_Witness ==
    /\ started
    /\ LoadingScreenWidgetClass = LoadingClass
    /\ MainMenuWidgetClass = MenuClass
    /\ directCalls = 0
    /\ LoadingTimerHandle = "fired"

\* C10: after Init the input is UI-only, with the cursor hidden while no call of
\* ShowMainMenu has been made and visible once one has, whatever the classes are.
C10_InputTracksFlow ==
    started =>
        /\ inputMode = "UIOnly"
        /\ bShowMouseCursor = (FlowState = "MainMenu")

\* ---------------------------------------------------- hover manager: claims

\* C1: the snapshot stored for a registered button is the style the button had
\* when it was first registered, however often BindButtonHoverEffects has run
\* and whatever hover was applied between its runs.
C1_SnapshotIsFirstCapture ==
    \A b \in DOMAIN OriginalTransforms :
        /\ OriginalTransforms[b] = firstTransforms[b]
        /\ OriginalColors[b] = firstColors[b]

\* C2: right after RemoveHoverEffect on a button registered once, whatever
\* enter and leave events came before, the button has the transform and the
\* colour it had when it was registered.
C2_RoundTrip ==
    \A b \in DOMAIN OriginalTransforms :
        (bindCalls = 1 /\ lastCall.op = "RemoveHoverEffect" /\ lastCall.button = b)
            => /\ RenderTransform[b] = firstTransforms[b]
               /\ ColorAndOpacity[b] = firstColors[b]

\* A leave that took the hover style off a button registered once.
C2_Witness ==
    /\ bindCalls = 1
    /\ lastCall.op = "RemoveHoverEffect"
    /\ lastCall.button \in DOMAIN OriginalTransforms
    /\ lastCall.changed

\* The stored transform with its scale multiplied by the multiplier in both axes.
ScaledByMultiplier(Original) ==
    [Original EXCEPT !.Scale = <<Mul(Original.Scale[1], HoverScaleMultiplier),
                                 Mul(Original.Scale[2], HoverScaleMultiplier)>>]

\* C3: right after ApplyHoverEffect on a registered button, the button's
\* transform is the stored one with its scale multiplied by HoverScaleMultiplier
\* in both axes.
C3_HoverScaleIsBaselineTimesMultiplier ==
    \A b \in DOMAIN OriginalTransforms :
        (lastCall.op = "ApplyHoverEffect" /\ lastCall.button = b)
            => RenderTransform[b] = ScaledByMultiplier(OriginalTransforms[b])

\* C6: a call of ApplyHoverEffect or RemoveHoverEffect with a button that was
\* never registered, or with none, changes no button's transform or colour and
\* leaves both maps as they were.
C6_UnknownButtonNoOp ==
    [][(/\ lastCall'.op \in {"ApplyHoverEffect", "RemoveHoverEffect"}
        /\ lastCall'.button \notin DOMAIN OriginalTransforms)
           => UNCHANGED <<RenderTransform, ColorAndOpacity, OriginalTransforms,
                          OriginalColors>>]_vars

\* ApplyHoverEffect was called with a button that is not registered while other
\* buttons are.
C6_Witness ==
    /\ lastCall.op = "ApplyHoverEffect"
    /\ lastCall.button # NullButton
    /\ lastCall.button \notin DOMAIN OriginalTransforms
    /\ OriginalTransforms # EmptyMap

\* ------------------------------------------- startup flow: missing classes

\* C11: a missing class is skipped silently. After Init with no loading class
\* and before any ShowMainMenu there is no current view and nothing is shown;
\* after a ShowMainMenu with no main menu class there is no current view and
\* nothing is shown; no call is ever made on a null widget; and every widget
\* made or shown is an instance of a class that was set.
C11_MissingClassesSkipped ==
    /\ (started /\ LoadingScreenWidgetClass = NullClass /\ ShowMainMenuCalls = 0)
           => (CurrentWidget = NullWidget /\ viewport = {} /\ widgets = <<>>)
    /\ (ShowMainMenuCalls >= 1 /\ MainMenuWidgetClass = NullClass)
           => (CurrentWidget = NullWidget /\ viewport = {})
    /\ \A i \in 1..Len(uiCalls) : uiCalls[i].widget # NullWidget
    /\ \A w \in 1..Len(widgets) :
           /\ widgets[w] # NullClass
           /\ widgets[w] \in {LoadingScreenWidgetClass, MainMenuWidgetClass}
    /\ viewport \subseteq 1..Len(widgets)

\* Init ran with no loading class and ShowMainMenu was then called on the null
\* current view.
C11_Witness ==
    /\ started
    /\ LoadingScreenWidgetClass = NullClass
    /\ directCalls >= 1
    /\ uiCalls = <<>>

\* ------------------------------------------- hover manager: further claims

\* C12: right after ApplyHoverEffect on a registered button, each channel of the
\* button's colour (alpha too) is the stored channel times the tint's channel,
\* unclamped; the stored colour (0.5, 0.5, 0.5, 1.0) gives (0.6, 0.6, 0.6, 1.0).
C12_HoverColorIsBaselineTimesTint ==
    \A b \in DOMAIN OriginalColors :
        (lastCall.op = "ApplyHoverEffect" /\ lastCall.button = b)
            => /\ ColorAndOpacity[b].R = (OriginalColors[b].R * 120) \div 100
               /\ ColorAndOpacity[b].G = (OriginalColors[b].G * 120) \div 100
               /\ ColorAndOpacity[b].B = (OriginalColors[b].B * 120) \div 100
               /\ ColorAndOpacity[b].A = OriginalColors[b].A
               /\ (OriginalColors[b] = [R |-> 50, G |-> 50, B |-> 50, A |-> 100]
                       => ColorAndOpacity[b] = [R |-> 60, G |-> 60, B |-> 60, A |-> 100])

\* A hover gave a button a red channel above 1.0.
C12_Witness ==
    /\ lastCall.op = "ApplyHoverEffect"
    /\ lastCall.button \in DOMAIN OriginalColors
    /\ ColorAndOpacity[lastCall.button].R > 100

\* The hover style the specification derives from a baseline style.
DerivedHoverColor(c) ==
    [R |-> (c.R * 120) \div 100, G |-> (c.G * 120) \div 100,
     B |-> (c.B * 120) \div 100, A |-> c.A]

\* C13: the style of a registered button is always its style at first
\* registration or the hover style derived from that style (scale times the
\* multiplier, colour times the tint): hover effects never compound.
C13_BinaryHoverState ==
    \A b \in DOMAIN firstTransforms :
        \/ /\ RenderTransform[b] = firstTransforms[b]
           /\ ColorAndOpacity[b] = firstColors[b]
        \/ /\ RenderTransform[b] = ScaledByMultiplier(firstTransforms[b])
           /\ ColorAndOpacity[b] = DerivedHoverColor(firstColors[b])

\* C13 with the hover style as ApplyHoverEffect derives it (scale set to the
\* multiplier): what is left of the claim's failure when the scale is put aside.
BinaryHoverStateOfCode ==
    \A b \in DOMAIN firstTransforms :
        \/ /\ RenderTransform[b] = firstTransforms[b]
           /\ ColorAndOpacity[b] = firstColors[b]
        \/ /\ RenderTransform[b] = HoverTransform(firstTransforms[b])
           /\ ColorAndOpacity[b] = DerivedHoverColor(firstColors[b])

\* The step just taken was a call of ApplyHoverEffect or RemoveHoverEffect.
HoverCallStep == lastCall'.op \in {"ApplyHoverEffect", "RemoveHoverEffect"}

\* C14: a call of ApplyHoverEffect or RemoveHoverEffect leaves both maps as they
\* were, only BindButtonHoverEffects changes them, and no step takes an entry
\* out of either map.
C14_MapsChangedOnlyByRegister ==
    [][/\ HoverCallStep => UNCHANGED <<OriginalTransforms, OriginalColors>>
       /\ (OriginalTransforms' # OriginalTransforms \/ OriginalColors' # OriginalColors)
              => lastCall'.op = "BindButtonHoverEffects"
       /\ DOMAIN OriginalTransforms \subseteq DOMAIN OriginalTransforms'
       /\ DOMAIN OriginalColors \subseteq DOMAIN OriginalColors']_vars

\* A hover was applied after the buttons were registered twice.
C14_Witness ==
    /\ bindCalls = 2
    /\ lastCall.op = "ApplyHoverEffect"
    /\ lastCall.button \in DOMAIN OriginalTransforms
    /\ lastCall.changed

BoundButtons == {PlayButton, SettingsButton, ContentButton, QuitButton} \ {NullButton}

\* C16: once BindButtonHoverEffects has run, the buttons with a snapshot and
\* with bound delegates are exactly the non-null ones of the four properties
\* (nothing is stored for nullptr), and right after a run each of them has its
\* own current transform and colour stored.
C16_NullButtonSkipped ==
    bindCalls >= 1 =>
        /\ DOMAIN OriginalTransforms = BoundButtons
        /\ DOMAIN OriginalColors = BoundButtons
        /\ hoverBound = BoundButtons
        /\ lastCall.op = "BindButtonHoverEffects" =>
               \A b \in BoundButtons :
                   /\ OriginalTransforms[b] = RenderTransform[b]
                   /\ OriginalColors[b] = ColorAndOpacity[b]

\* BindButtonHoverEffects ran with a null property before non-null ones.
C16_Witness ==
    /\ bindCalls >= 1
    /\ PlayButton = NullButton
    /\ "Quit" \in DOMAIN OriginalTransforms

\* C17: a call of ApplyHoverEffect or RemoveHoverEffect for one button leaves
\* the transform and the colour of every other button, and every other button's
\* stored snapshot, as they were.
C17_OtherButtonsUntouched ==
    [][HoverCallStep =>
           /\ \A b \in AllButtons \ {lastCall'.button} :
                  /\ RenderTransform'[b] = RenderTransform[b]
                  /\ ColorAndOpacity'[b] = ColorAndOpacity[b]
           /\ DOMAIN OriginalTransforms' = DOMAIN OriginalTransforms
           /\ DOMAIN OriginalColors' = DOMAIN OriginalColors
           /\ \A b \in (DOMAIN OriginalTransforms) \ {lastCall'.button} :
                  /\ OriginalTransforms'[b] = OriginalTransforms[b]
                  /\ OriginalColors'[b] = OriginalColors[b]]_vars

\* A hover changed one button while another registered button was hovered too.
C17_Witness ==
    /\ lastCall.op = "ApplyHoverEffect"
    /\ lastCall.changed
    /\ \E b \in (DOMAIN OriginalColors) \ {lastCall.button} :
           ColorAndOpacity[b] # OriginalColors[b]

====
